---- MODULE Spec2Model ----
(***************************************************************************)
(* Braincast: the two scalp-signal handlers (src/unnamed/part_000 and      *)
(* src/unnamed/part_001) and the App screen state machine                  *)
(* (src/src/App.tsx, src/unnamed/part_002).                                *)
(*                                                                         *)
(* Numbers.  Indicator counts and leverage are integers.  Prices are       *)
(* JavaScript doubles; the model keeps every price as an integer number of *)
(* HALF units (119500 is 239000, 113279.5 is 226559), so that prices with  *)
(* a fractional part exist and Math.round is not the identity.             *)
(***************************************************************************)
EXTENDS Integers, Sequences, FiniteSets, TLC

VARIABLES
    variant,     \* which handler file serves the request
    pc,          \* the handler's position: "idle", "awaitTA", "awaitPrice", "done"
    taResult,    \* how the technical-analysis fetch ended ("none" before it does)
    matches,     \* part_000:35 / part_001:21, the triples the regex extracted
    summary,     \* part_000:44 / part_001:33
    direction,   \* part_000:65 / part_001:46
    leverage,    \* part_000:87 / part_001:70
    priceResult, \* how the price fetch ended ("none" before it does)
    usd,         \* the bitcoin.usd value of the price payload, in half units
    price,       \* part_000:94 / part_001:74, in half units
    sent,        \* the responses written to res, in order
    escaped,     \* TRUE once an exception has left the handler
    endpoint,       \* the scalp endpoint the App fetches (App.tsx:32, part_002:37)
    screen,         \* App.tsx:20
    btcPrice,       \* App.tsx:21, None (null) or Some(record)
    report,         \* App.tsx:22, None (null) or Some(record)
    pricePromise,   \* App.tsx:31
    reportPromise,  \* App.tsx:32
    delayPromise    \* App.tsx:34

hvars == <<variant, pc, taResult, matches, summary, direction, leverage,
           priceResult, usd, price, sent, escaped>>

avars == <<endpoint, screen, btcPrice, report, pricePromise, reportPromise, delayPromise>>

vars == <<hvars, avars>>

----------------------------------------------------------------------------
(* Bounds of the model *)

\* A page shows at most this many "Up: Down: Neutral:" sequences beyond
\* the seven the handlers read.
MaxExtra == 1

\* The largest count a page shows for one side of a timeframe.
MaxCount == 8

\* The triples (up, down, neutral) a page may show for a timeframe.
Triples == {<<6, 6, 0>>, <<MaxCount, 0, 4>>, <<0, MaxCount, 4>>}

\* The triple of every sequence beyond the seventh.
ExtraTriple == <<MaxCount, 0, 4>>

\* The pages, as the sequences of triples the regex finds in them: up to
\* seven triples, or seven and up to MaxExtra more.
Pages ==
    (UNION {[1..n -> Triples] : n \in 0..7})
    \cup {p \o [i \in 1..k |-> ExtraTriple] : p \in [1..7 -> Triples], k \in 1..MaxExtra}

\* n whole units as half units.
Units(n) == 2 * n

\* The bitcoin.usd values a price payload may carry, in half units:
\* 100000, 119500, 113279.5, 500, 0, -1, -100000.
UsdValues ==
    {Units(100000), Units(119500), Units(113279) + 1, Units(500), 0, Units(-1),
     Units(-100000)}

Variants == {"part_000", "part_001"}

----------------------------------------------------------------------------
(* Arithmetic *)

Min(a, b) == IF a < b THEN a ELSE b
Max(a, b) == IF a > b THEN a ELSE b
Abs(a) == IF a < 0 THEN -a ELSE a

\* Math.round of the rational num/den (den > 0): the nearest integer, a
\* half going up (towards +Infinity).
RoundHalfUp(num, den) == (2 * num + den) \div (2 * den)

\* Math.round of a price held in half units, as half units.
RoundPrice(p) == Units((p + 1) \div 2)

RECURSIVE Log2Floor(_)
\* The exponent of the binade of n >= 1: the largest k with 2^k <= n.
Log2Floor(n) == IF n < 2 THEN 0 ELSE 1 + Log2Floor(n \div 2)

RECURSIVE Pow2(_)
Pow2(k) == IF k <= 0 THEN 1 ELSE 2 * Pow2(k - 1)

(***************************************************************************)
(* Math.round(e * c) in IEEE double arithmetic, where e is a price (half   *)
(* units) and c is the double the source's constant expression evaluates   *)
(* to.  The expression's real value is num/den and                         *)
(*     err = (c - num/den) * den * 2^53,                                   *)
(* an integer.  When e*num/den is not exactly halfway between two integers *)
(* the double product rounds as the real product does.  When it is exactly *)
(* n + 1/2, the real value of e*c is n + 1/2 + e*(c - num/den); the        *)
(* product is rounded to the nearest double, which is n + 1/2 unless e*c   *)
(* lies more than half a spacing (2^(k-53), k the binade of n + 1/2) below *)
(* it, and then Math.round gives n instead of n + 1.                       *)
(***************************************************************************)
DoubleProductRound(e, num, den, err) ==
    LET p == e * num
        up == (p + den) \div (2 * den)
        tie == p % den = 0 /\ (p \div den) % 2 = 1
        k == Log2Floor(Abs(2 * up - 1))
    IN  IF ~tie THEN up
        ELSE IF e * err >= 0 THEN up
        ELSE IF Abs(e) * Abs(err) <= den * Pow2(k) THEN up
        ELSE up - 1

\* (c - 1017/1000) * 1000 * 2^53 for c = 1 + 0.017
TargetLongErr == -864

\* (c - 983/1000) * 1000 * 2^53 for c = 1 - 0.017
TargetShortErr == -136

\* (c - (20L-3)/(20L)) * 20L * 2^53 for c = 1 - 0.15/L, L = 30..50
StopLongErrs ==
    <<-24, -224, 256, 156, 96, -324, 96, 276, 296, 96, -224,
      -24, 96, 296, -64, 276, -304, 196, -384, -324, -24>>

\* (c - (20L+3)/(20L)) * 20L * 2^53 for c = 1 + 0.15/L, L = 30..50
StopShortErrs ==
    <<-576, 224, -256, 504, -96, -376, -96, 464, 464, -96, -576,
      24, -96, -296, 64, 624, 304, 744, 384, -656, -976>>

\* Outside 30..50 (a leverage the handlers never compute) the error is not
\* tabulated and taken as 0.
StopLongErr(L) == IF L \in 30..50 THEN StopLongErrs[L - 29] ELSE 0
StopShortErr(L) == IF L \in 30..50 THEN StopShortErrs[L - 29] ELSE 0

----------------------------------------------------------------------------
(* The handlers' computations *)

timeframes == <<"5m", "15m", "1h", "2h", "4h", "6h", "1d">>

\* A series built from the trailing seven matches instead of the leading
\* seven.
SummaryTrailingMatches(m) ==
    [idx \in 1..Len(timeframes) |->
        LET j == IF Len(m) > Len(timeframes) THEN idx + Len(m) - Len(timeframes) ELSE idx
            t == IF j <= Len(m) THEN m[j] ELSE <<0, 0, 0>>
        IN  [timeframe |-> timeframes[idx], up |-> t[1], down |-> t[2], neutral |-> t[3]]]

\* timeframes.map((tf, idx) => matches[idx] ?? [0, 0, 0])
Summary(m) ==
    [idx \in 1..Len(timeframes) |->
        LET t == IF idx <= Len(m) THEN m[idx] ELSE <<0, 0, 0>>
        IN  [timeframe |-> timeframes[idx], up |-> t[1], down |-> t[2], neutral |-> t[3]]]

RECURSIVE SumUp(_)
SumUp(frames) == IF frames = <<>> THEN 0 ELSE Head(frames).up + SumUp(Tail(frames))

RECURSIVE SumDown(_)
SumDown(frames) == IF frames = <<>> THEN 0 ELSE Head(frames).down + SumDown(Tail(frames))

\* summary.slice(0, 3)
LowFrames(s) == SubSeq(s, 1, Min(3, Len(s)))

\* summary.slice(-3)
HighFrames(s) == SubSeq(s, Max(1, Len(s) - 2), Len(s))

\* part_000: the bias over all parsed timeframes.
Direction000(s) == IF SumUp(s) > SumDown(s) THEN "LONG" ELSE "SHORT"

\* Direction001 with the tie going to LONG (>= for >).
Direction001TieLong(s) ==
    IF SumUp(LowFrames(s)) >= SumDown(LowFrames(s)) THEN "LONG" ELSE "SHORT"

\* Direction001 over the whole summary instead of its first three entries.
Direction001AllFrames(s) ==
    IF SumUp(s) > SumDown(s) THEN "LONG"
    ELSE IF SumDown(s) > SumUp(s) THEN "SHORT"
    ELSE "SHORT"

\* part_001: the bias over the lower timeframes (5m, 15m, 1h).
Direction001(s) ==
    LET lowUp == SumUp(LowFrames(s))
        lowDown == SumDown(LowFrames(s))
    IN  IF lowUp > lowDown THEN "LONG"
        ELSE IF lowDown > lowUp THEN "SHORT"
        ELSE "SHORT"

Direction(v, s) == IF v = "part_000" THEN Direction000(s) ELSE Direction001(s)

\* ConsensusLeverage with the ratio of the counts against the direction.
ConsensusLeverageOpposed(aligned, total) ==
    IF total > 0 THEN RoundHalfUp(30 * total + 20 * (total - aligned), total) ELSE 30

\* Math.round(30 + 20 * consensusRatio), consensusRatio = aligned / total
\* when total > 0 and 0 otherwise.
ConsensusLeverage(aligned, total) ==
    IF total > 0 THEN RoundHalfUp(30 * total + 20 * aligned, total) ELSE 30

\* The up + down total of the trailing window.
HighTotal(s) == SumUp(HighFrames(s)) + SumDown(HighFrames(s))

\* The trailing window's count on the side of the direction.
Aligned(s, d) == IF d = "LONG" THEN SumUp(HighFrames(s)) ELSE SumDown(HighFrames(s))

\* part_000: Math.min(50, Math.max(30, leverage))
Leverage000(s, d) == Min(50, Max(30, ConsensusLeverage(Aligned(s, d), HighTotal(s))))

\* part_001: Math.max(30, Math.min(50, Math.round(leverage)))
Leverage001(s, d) == Max(30, Min(50, ConsensusLeverage(Aligned(s, d), HighTotal(s))))

\* Leverage with the aligned count not divided by the total and the clamp
\* left out.
LeverageUnclamped(v, s, d) == 30 + 20 * Aligned(s, d)

Leverage(v, s, d) == IF v = "part_000" THEN Leverage000(s, d) ELSE Leverage001(s, d)

\* part_000: if (!price) price = 119500
FallbackPrice000(p) == IF p = 0 THEN Units(119500) ELSE p

\* part_001: if (!price || price <= 0) price = 113279
FallbackPrice001(p) == IF p = 0 \/ p <= 0 THEN Units(113279) ELSE p

FallbackPrice(v, p) == IF v = "part_000" THEN FallbackPrice000(p) ELSE FallbackPrice001(p)

\* TargetPrice with the move added for SHORT as it is for LONG.
TargetPriceAlwaysUp(d, entry) ==
    Units(DoubleProductRound(entry, 1017, 1000, TargetLongErr))

\* Math.round(entryPrice * (1 + 0.017)) or Math.round(entryPrice * (1 - 0.017))
TargetPrice(d, entry) ==
    IF d = "LONG"
    THEN Units(DoubleProductRound(entry, 1017, 1000, TargetLongErr))
    ELSE Units(DoubleProductRound(entry, 983, 1000, TargetShortErr))

\* StopPrice with the threshold taken at the base leverage, 0.15 / 30,
\* whatever the leverage.
StopPriceBaseLeverage(d, entry, L) ==
    IF d = "LONG"
    THEN Units(DoubleProductRound(entry, 20 * 30 - 3, 20 * 30, StopLongErr(30)))
    ELSE Units(DoubleProductRound(entry, 20 * 30 + 3, 20 * 30, StopShortErr(30)))

\* Math.round(entryPrice * (1 - 0.15 / leverage)) or
\* Math.round(entryPrice * (1 + 0.15 / leverage))
StopPrice(d, entry, L) ==
    IF d = "LONG"
    THEN Units(DoubleProductRound(entry, 20 * L - 3, 20 * L, StopLongErr(L)))
    ELSE Units(DoubleProductRound(entry, 20 * L + 3, 20 * L, StopShortErr(L)))

\* part_000 rounds the entry in the response; part_001 sends it as it is.
EntryPrice(v, entry) == IF v = "part_000" THEN RoundPrice(entry) ELSE entry

\* The body of the computed response.
ComputedDirective(v, d, L, entry) ==
    [signal |-> d,
     entryPrice |-> EntryPrice(v, entry),
     targetPrice |-> TargetPrice(d, entry),
     stopPrice |-> StopPrice(d, entry, L),
     leverage |-> L]

\* The body of the catch block's response.
StaticFallback ==
    [signal |-> "LONG",
     entryPrice |-> Units(119500),
     targetPrice |-> Units(121500),
     stopPrice |-> Units(119200),
     leverage |-> 30]

\* res.status(200).json(...) of the try block
ComputedResponse(v, d, L, entry) ==
    [status |-> 200, body |-> ComputedDirective(v, d, L, entry)]

\* res.status(200).json(...) of the catch block
CatchResponse == [status |-> 200, body |-> StaticFallback]

----------------------------------------------------------------------------
(* Optional values: null or undefined is None, a value v is Some(v). *)

None == <<>>
Some(v) == <<v>>

\* a ?? b
Coalesce(a, b) == IF a # None THEN a ELSE b

Endpoints == {"/api/coinalyze-scalp", "/api/better-scalp"}

\* A promise: not created, pending, or resolved with a value.
NoPromise == [state |-> "none", value |-> None]
Pending == [state |-> "pending", value |-> None]
Resolved(v) == [state |-> "resolved", value |-> v]

----------------------------------------------------------------------------
(* The handler as a state machine.  The handler runs from one await to the *)
(* next without interruption, so each action is one such stretch.          *)

\* The ways the technical-analysis acquisition throws: fetch rejects, the
\* status is not ok (the throw of line 21), text() rejects, the import of
\* cheerio rejects.
TAFailures == {"rejected", "status", "textRejected", "importRejected"}

\* The ways the price acquisition throws: fetch rejects, json() rejects,
\* the payload is null (priceData.bitcoin is a TypeError).
PriceThrows == {"rejected", "jsonRejected", "nullPayload"}

\* The stages of the handler body the inner try block (part_000:95-105,
\* part_001:75-88) encloses.
InnerTryCovers(stage) == stage = "price"

\* OuterTryCovers with the try opening after the page has been fetched.
OuterTryCoversAfterFetch(stage) == stage \in {"compute", "price", "respond"}

\* The stages the outer try block (part_000:2-135, part_001:2-113) encloses.
OuterTryCovers(stage) == stage \in {"ta", "compute", "price", "respond"}

\* Where a throw at a stage ends: in the inner catch, which ignores it; in
\* the outer catch, which sends the static fallback; or outside the handler.
OnThrow(stage) ==
    IF InnerTryCovers(stage) THEN "ignored"
    ELSE IF OuterTryCovers(stage) THEN "fallback"
    ELSE "escapes"

HandlerIdle ==
    /\ variant \in Variants
    /\ pc = "idle"
    /\ taResult = "none"
    /\ matches = <<>>
    /\ summary = <<>>
    /\ direction = "none"
    /\ leverage = 0
    /\ priceResult = "none"
    /\ usd = 0
    /\ price = 0
    /\ sent = <<>>
    /\ escaped = FALSE

\* The App as first rendered.
AppIdle ==
    /\ screen = "landing"
    /\ btcPrice = None
    /\ report = None
    /\ pricePromise = NoPromise
    /\ reportPromise = NoPromise
    /\ delayPromise = NoPromise

\* A handler about to be invoked, beside an App nobody has touched.
Init == HandlerIdle /\ AppIdle /\ endpoint = "/api/coinalyze-scalp"

\* The platform calls handler(_req, res); the handler awaits the page.
Invoke ==
    /\ pc = "idle"
    /\ pc' = "awaitTA"
    /\ UNCHANGED <<variant, taResult, matches, summary, direction, leverage,
                   priceResult, usd, price, sent, escaped, avars>>

\* The page cannot be had: the throw lands in the outer catch block, which
\* sends the static fallback.  The price is never fetched.
TAFails ==
    /\ pc = "awaitTA"
    /\ \E kind \in TAFailures : taResult' = kind
    /\ IF OnThrow("ta") = "escapes"
       THEN escaped' = TRUE /\ sent' = sent
       ELSE escaped' = escaped /\ sent' = Append(sent, CatchResponse)
    /\ pc' = "done"
    /\ UNCHANGED <<variant, matches, summary, direction, leverage,
                   priceResult, usd, price, avars>>

\* The page arrives with the triples of some page in it; the handler
\* extracts them, builds the summary, resolves direction and leverage, and
\* awaits the price.
TAPage ==
    /\ pc = "awaitTA"
    /\ taResult' = "html"
    /\ \E page \in Pages : matches' = page
    /\ summary' = Summary(matches')
    /\ direction' = Direction(variant, summary')
    /\ leverage' = Leverage(variant, summary', direction')
    /\ pc' = "awaitPrice"
    /\ UNCHANGED <<variant, priceResult, usd, price, sent, escaped, avars>>

\* The rest of the try block, from the price that was acquired (0: none).
Respond(acquired) ==
    /\ price' = FallbackPrice(variant, acquired)
    /\ sent' = Append(sent, ComputedResponse(variant, direction, leverage, price'))
    /\ escaped' = escaped
    /\ pc' = "done"

\* The price acquisition throws: the inner catch ignores it and price
\* stays 0.
PriceFails ==
    /\ pc = "awaitPrice"
    /\ \E kind \in PriceThrows : priceResult' = kind
    /\ CASE OnThrow("price") = "ignored" -> Respond(0)
         [] OnThrow("price") = "fallback" ->
                /\ sent' = Append(sent, CatchResponse)
                /\ escaped' = escaped
                /\ price' = price
                /\ pc' = "done"
         [] OTHER ->
                /\ sent' = sent
                /\ escaped' = TRUE
                /\ price' = price
                /\ pc' = "done"
    /\ UNCHANGED <<variant, taResult, matches, summary, direction, leverage,
                   usd, avars>>

\* The price response's status is not ok: the json() is skipped and price
\* stays 0.
PriceNotOk ==
    /\ pc = "awaitPrice"
    /\ priceResult' = "status"
    /\ Respond(0)
    /\ UNCHANGED <<variant, taResult, matches, summary, direction, leverage,
                   usd, avars>>

\* The payload has no bitcoin.usd: priceData.bitcoin?.usd ?? 0 is 0.
PriceMissing ==
    /\ pc = "awaitPrice"
    /\ priceResult' = "nousd"
    /\ Respond(0)
    /\ UNCHANGED <<variant, taResult, matches, summary, direction, leverage,
                   usd, avars>>

\* The payload carries a number as bitcoin.usd.
PricePayload ==
    /\ pc = "awaitPrice"
    /\ priceResult' = "usd"
    /\ \E u \in UsdValues : usd' = u
    /\ Respond(usd')
    /\ UNCHANGED <<variant, taResult, matches, summary, direction, leverage,
                   avars>>

Next ==
    \/ Invoke
    \/ TAFails
    \/ TAPage
    \/ PriceFails
    \/ PriceNotOk
    \/ PriceMissing
    \/ PricePayload

Spec == Init /\ [][Next]_vars

----------------------------------------------------------------------------
(* The App screen state machine (App.tsx and part_002, which differ only   *)
(* in the scalp endpoint they fetch).                                      *)

\* What fetch('/api/btc-price').then(res => res.json()).catch(() => null)
\* can resolve to: null (the fetch or json() rejected, or the body is
\* null), or an object whose price and change24h are numbers or not.
\* price is in half units, change24h in hundredths of a percent.
PriceDatas ==
    {None} \cup
    {Some([price |-> p, change24h |-> c]) :
        p \in {None, Some(Units(113279)), Some(Units(100000) + 1)},
        c \in {None, Some(-276), Some(150)}}

\* What the scalp fetch can resolve to: null, or an object with some of
\* the fields the App reads.  An absent field is None; signal "" is the
\* empty string.
ReportField(sig, dir, e, te, t, x, st, sl, lev) ==
    [signal |-> sig, direction |-> dir, entryPrice |-> e, technicalEntryPrice |-> te,
     targetPrice |-> t, exitPrice |-> x, stopPrice |-> st, stopLoss |-> sl, leverage |-> lev]

ReportDatas ==
    { None,
      \* the handlers' static fallback
      Some(ReportField(Some("LONG"), None, Some(Units(119500)), None, Some(Units(121500)),
                       None, Some(Units(119200)), None, Some(30))),
      \* a computed directive
      Some(ReportField(Some("SHORT"), None, Some(Units(100000)), None, Some(Units(98300)),
                       None, Some(Units(100300)), None, Some(50))),
      \* the older shape: direction, technicalData.entryPrice, exitPrice, stopLoss
      Some(ReportField(None, Some("SHORT"), None, Some(Units(118000)), None,
                       Some(Units(116000)), None, Some(Units(118500)), None)),
      \* an empty signal beside a direction
      Some(ReportField(Some(""), Some("NONE"), Some(0), None, None, None, None, None, Some(0))),
      \* an object with neither signal nor direction
      Some(ReportField(None, None, Some(Units(1)), None, None, None, None, None, None)) }

\* A string in a boolean position: absent and "" are falsy.
Truthy(str) == str # None /\ str # Some("")

\* a || b
OrElse(a, b) == IF Truthy(a) THEN a ELSE b

\* App.tsx:40-47
BtcPriceOf(priceData) ==
    IF priceData # None /\ priceData[1].price # None
    THEN [price |-> RoundPrice(priceData[1].price[1]),
          change24h |-> Coalesce(priceData[1].change24h, Some(0))[1]]
    ELSE [price |-> Units(113279), change24h |-> -276]

\* App.tsx:59 and 64
DefaultReport ==
    [direction |-> "LONG", entryPrice |-> Units(119500), targetPrice |-> Units(121500),
     stopPrice |-> Units(119200), leverage |-> 30]

\* App.tsx:50-60
ReportOf(reportData) ==
    IF reportData # None /\ (Truthy(reportData[1].signal) \/ Truthy(reportData[1].direction))
    THEN LET r == reportData[1]
         IN  [direction |-> OrElse(r.signal, OrElse(r.direction, Some("LONG")))[1],
              entryPrice |-> Coalesce(r.entryPrice, Coalesce(r.technicalEntryPrice, Some(Units(119500))))[1],
              targetPrice |-> Coalesce(r.targetPrice, Coalesce(r.exitPrice, Some(Units(121500))))[1],
              stopPrice |-> Coalesce(r.stopPrice, Coalesce(r.stopLoss, Some(Units(119200))))[1],
              leverage |-> Coalesce(r.leverage, Some(30))[1]]
    ELSE DefaultReport

\* What the component returns: a screen, or "null" (the last return).
Rendered ==
    IF screen = "landing" THEN "landing"
    ELSE IF screen = "loading" THEN "loading"
    ELSE IF screen = "report" /\ btcPrice # None /\ report # None THEN "report"
    ELSE "null"

\* The Start Braincast button, which only the landing screen shows: the
\* three set-state calls and the three promises.
StartBraincast ==
    /\ screen = "landing"
    /\ screen' = "loading"
    /\ btcPrice' = None
    /\ report' = None
    /\ pricePromise' = Pending
    /\ reportPromise' = Pending
    /\ delayPromise' = Pending
    /\ UNCHANGED <<endpoint, hvars>>

\* The price fetch settles; .catch(() => null) turns a rejection into null.
PriceSettles ==
    /\ pricePromise = Pending
    /\ \E d \in PriceDatas : pricePromise' = Resolved(d)
    /\ UNCHANGED <<endpoint, screen, btcPrice, report, reportPromise, delayPromise, hvars>>

\* The scalp fetch settles.
ReportSettles ==
    /\ reportPromise = Pending
    /\ \E d \in ReportDatas : reportPromise' = Resolved(d)
    /\ UNCHANGED <<endpoint, screen, btcPrice, report, pricePromise, delayPromise, hvars>>

\* setTimeout(resolve, 3500) fires.
DelayFires ==
    /\ delayPromise = Pending
    /\ delayPromise' = Resolved(None)
    /\ UNCHANGED <<endpoint, screen, btcPrice, report, pricePromise, reportPromise, hvars>>

\* A startBraincast without the else branch of the price update: data that
\* is missing or malformed leaves btcPrice as it was.
ShowReportWithoutPriceFallback ==
    /\ pricePromise.state = "resolved"
    /\ reportPromise.state = "resolved"
    /\ delayPromise.state = "resolved"
    /\ btcPrice' = IF pricePromise.value # None /\ pricePromise.value[1].price # None
                   THEN Some(BtcPriceOf(pricePromise.value))
                   ELSE btcPrice
    /\ report' = Some(ReportOf(reportPromise.value))
    /\ screen' = "report"
    /\ pricePromise' = NoPromise
    /\ reportPromise' = NoPromise
    /\ delayPromise' = NoPromise
    /\ UNCHANGED <<endpoint, hvars>>

\* A startBraincast that awaits the two fetches only, not the delay.
ShowReportWithoutDelay ==
    /\ pricePromise.state = "resolved"
    /\ reportPromise.state = "resolved"
    /\ btcPrice' = Some(BtcPriceOf(pricePromise.value))
    /\ report' = Some(ReportOf(reportPromise.value))
    /\ screen' = "report"
    /\ pricePromise' = NoPromise
    /\ reportPromise' = NoPromise
    /\ delayPromise' = NoPromise
    /\ UNCHANGED <<endpoint, hvars>>

\* Promise.all has resolved: the rest of startBraincast.  None of the three
\* promises can reject and nothing in the try block throws, so the catch
\* block of App.tsx:61-65 is never entered.
ShowReport ==
    /\ pricePromise.state = "resolved"
    /\ reportPromise.state = "resolved"
    /\ delayPromise.state = "resolved"
    /\ btcPrice' = Some(BtcPriceOf(pricePromise.value))
    /\ report' = Some(ReportOf(reportPromise.value))
    /\ screen' = "report"
    /\ pricePromise' = NoPromise
    /\ reportPromise' = NoPromise
    /\ delayPromise' = NoPromise
    /\ UNCHANGED <<endpoint, hvars>>

\* The New Report button, which only the report screen shows.
NewReport ==
    /\ Rendered = "report"
    /\ screen' = "landing"
    /\ UNCHANGED <<endpoint, btcPrice, report, pricePromise, reportPromise, delayPromise, hvars>>

AppInit == HandlerIdle /\ AppIdle /\ endpoint \in Endpoints

AppNext ==
    \/ StartBraincast
    \/ PriceSettles
    \/ ReportSettles
    \/ DelayFires
    \/ ShowReport
    \/ NewReport

AppSpec == AppInit /\ [][AppNext]_vars

\* The event loop runs a continuation that is ready and fires a timer that
\* is due.  Nothing makes a server answer: PriceSettles and ReportSettles
\* carry no fairness.
AppFairSpec ==
    /\ AppInit
    /\ [][AppNext]_vars
    /\ WF_vars(DelayFires)
    /\ WF_vars(ShowReport)

----------------------------------------------------------------------------
(* Properties *)

\* The handler has built the summary and resolved direction and leverage.
Computed == taResult = "html"

\* The handler has sent the response of its try block.
SentComputed == pc = "done" /\ taResult = "html" /\ Len(sent) = 1

RECURSIVE UpIn(_, _)
\* The up counts of series s over the timeframes (indices) I.
UpIn(s, I) ==
    IF I = {} THEN 0
    ELSE LET i == CHOOSE x \in I : TRUE IN s[i].up + UpIn(s, I \ {i})

RECURSIVE DownIn(_, _)
DownIn(s, I) ==
    IF I = {} THEN 0
    ELSE LET i == CHOOSE x \in I : TRUE IN s[i].down + DownIn(s, I \ {i})

RECURSIVE NeutralIn(_, _)
NeutralIn(s, I) ==
    IF I = {} THEN 0
    ELSE LET i == CHOOSE x \in I : TRUE IN s[i].neutral + NeutralIn(s, I \ {i})

\* The timeframes a handler resolves the direction over.
DirectionWindow(v) == IF v = "part_000" THEN 1..7 ELSE 1..3

\* The trailing three timeframes.
TrailingWindow == 5..7

\* C1: the leverage the handlers compute from a 7-entry series is, for
\* either direction, an integer from 30 to 50, and every response sent,
\* computed or fallback, carries a leverage from 30 to 50.
C1_LeverageInRange ==
    /\ Computed =>
          /\ Len(summary) = 7
          /\ leverage \in 30..50
          /\ \A d \in {"LONG", "SHORT"} : Leverage(variant, summary, d) \in 30..50
    /\ \A i \in 1..Len(sent) : sent[i].body.leverage \in 30..50

\* A computed response whose leverage is strictly inside the range.
C1_Witness == SentComputed /\ sent[1].body.leverage \in 31..49

\* C2: the direction is LONG exactly when the up counts of the direction
\* window sum to more than its down counts, and SHORT otherwise (ties and
\* the all-zero series included); the neutral counts do not matter.
C2_DirectionRule ==
    Computed =>
        LET W == DirectionWindow(variant)
            noNeutral == [i \in 1..7 |-> [summary[i] EXCEPT !.neutral = 0]]
        IN  /\ direction \in {"LONG", "SHORT"}
            /\ direction = "LONG" <=> UpIn(summary, W) > DownIn(summary, W)
            /\ direction = "SHORT" <=> UpIn(summary, W) <= DownIn(summary, W)
            /\ Direction(variant, noNeutral) = direction

\* A tie with counts on both sides and neutral counts in the window.
C2_Witness ==
    /\ Computed
    /\ UpIn(summary, DirectionWindow(variant)) = DownIn(summary, DirectionWindow(variant))
    /\ UpIn(summary, DirectionWindow(variant)) > 0
    /\ NeutralIn(summary, DirectionWindow(variant)) > 0
    /\ direction = "SHORT"

\* The page of spec property 7: (6,6,0) for each of the seven timeframes.
AllTied == [i \in 1..7 |-> <<6, 6, 0>>]

\* The handler answered the all-tied page at spot price 119500.
AllTiedAt119500 ==
    /\ SentComputed
    /\ matches = AllTied
    /\ priceResult = "usd"
    /\ usd = Units(119500)

\* C3 as stated: raw counts (6,6,0) x 7 at spot price 119500 give SHORT,
\* leverage 30, entry 119500, target round(119500 * 0.983) and stop
\* round(119500 * 1.005).
C3_Original ==
    AllTiedAt119500 =>
        sent[1].body = [signal |-> "SHORT",
                        leverage |-> 30,
                        entryPrice |-> Units(119500),
                        targetPrice |-> Units(RoundHalfUp(119500 * 983, 1000)),
                        stopPrice |-> Units(RoundHalfUp(119500 * 1005, 1000))]

\* C3 amended: raw counts (6,6,0) x 7 at spot price 119500 give SHORT,
\* leverage 40 (half of the trailing window is aligned: round(30 + 20 *
\* 18/36)), entry 119500, target round(119500 * 0.983) = 117469 and stop
\* round(119500 * (1 + 0.15/40)) = 119948.
C3_Amended ==
    AllTiedAt119500 =>
        sent[1].body = [signal |-> "SHORT",
                        leverage |-> 40,
                        entryPrice |-> Units(119500),
                        targetPrice |-> Units(117469),
                        stopPrice |-> Units(119948)]

\* The all-tied page at 119500 has been answered.
C3_Witness == AllTiedAt119500 /\ sent[1].body.signal = "SHORT"

\* The series a handler would build from the same first three timeframes
\* (their neutral counts possibly different) and other last four.
TailTriples == {<<MaxCount, 0, 4>>, <<0, MaxCount, 4>>}

SameLeading(s) ==
    { [i \in 1..7 |->
          IF i <= 3
          THEN [s[i] EXCEPT !.neutral = IF keep THEN s[i].neutral ELSE 0]
          ELSE [timeframe |-> s[i].timeframe, up |-> tail[i - 3][1],
                down |-> tail[i - 3][2], neutral |-> tail[i - 3][3]]] :
        tail \in [1..4 -> TailTriples], keep \in BOOLEAN }

\* The series with the same last three timeframes and other first four.
SameTrailing(s) ==
    { [i \in 1..7 |->
          IF i >= 5
          THEN s[i]
          ELSE [timeframe |-> s[i].timeframe, up |-> head[i][1],
                down |-> head[i][2], neutral |-> head[i][3]]] :
        head \in [1..4 -> TailTriples] }

\* C4 as stated: whichever handler runs, two series that agree on the
\* up/down counts of the first three timeframes get the same direction.
C4_Original ==
    (pc = "awaitPrice") =>
        \A s2 \in SameLeading(summary) : Direction(variant, s2) = direction

\* C4 amended: the part_001 handler resolves direction over the leading
\* window only (series that agree on the up/down counts of 5m, 15m, 1h get
\* the same direction); the part_000 handler resolves it over all seven
\* timeframes.  Both resolve leverage over the trailing three timeframes
\* using that direction: series that agree on 4h, 6h, 1d get, for the same
\* direction, the same leverage.
C4_Amended ==
    (pc = "awaitPrice") =>
        /\ variant = "part_001" =>
              \A s2 \in SameLeading(summary) : Direction(variant, s2) = direction
        /\ variant = "part_000" =>
              direction = (IF UpIn(summary, 1..7) > DownIn(summary, 1..7) THEN "LONG" ELSE "SHORT")
        /\ \A s2 \in SameTrailing(summary) :
              Leverage(variant, s2, direction) = leverage

\* part_001 says LONG from the leading window although the seven
\* timeframes together lean down, and the trailing window sets a leverage
\* above the floor.
C4_Witness ==
    /\ pc = "awaitPrice"
    /\ variant = "part_001"
    /\ direction = "LONG"
    /\ UpIn(summary, 1..7) < DownIn(summary, 1..7)
    /\ leverage > 30

\* The response's fields are all there, with values of their kinds.
Populated(body) ==
    /\ DOMAIN body = {"signal", "entryPrice", "targetPrice", "stopPrice", "leverage"}
    /\ body.signal \in {"LONG", "SHORT"}
    /\ body.entryPrice \in Int
    /\ body.targetPrice \in Int
    /\ body.stopPrice \in Int
    /\ body.leverage \in Int

\* C5: whatever the two sources do (the page fetch throws, answers with a
\* non-success status or with a page of any number of matches; the price
\* fetch throws, answers with a non-success status or with a payload
\* without bitcoin.usd), the handler sends one response, with status 200
\* and all five fields, and no exception leaves it.
C5_AlwaysResponds ==
    /\ escaped = FALSE
    /\ Len(sent) <= 1
    /\ \A i \in 1..Len(sent) : sent[i].status = 200 /\ Populated(sent[i].body)
    /\ pc = "done" => Len(sent) = 1
    /\ pc # "done" => ENABLED Next

\* An empty page and a price payload of null: a full response all the same.
C5_Witness ==
    /\ pc = "done"
    /\ taResult = "html"
    /\ matches = <<>>
    /\ priceResult = "nullPayload"
    /\ Len(sent) = 1
    /\ sent[1].status = 200

\* C6: in every computed Directive entryPrice is the spot price rounded to
\* an integer when the spot price is there and above 0, and the fallback
\* constant 119500 when it is absent, zero or negative; so it is always a
\* positive integer.
C6_EntryPrice ==
    SentComputed =>
        LET e == sent[1].body.entryPrice
            present == priceResult = "usd" /\ usd > 0
        IN  /\ present => e = RoundPrice(usd)
            /\ ~present => e = Units(119500)
            /\ e > 0
            /\ e % 2 = 0

\* The real product entry * num/den, entry in half units, rounded half up.
ExactRound(entry, num, den) == RoundHalfUp(entry * num, 2 * den)

\* n (whole units) is a nearest integer to the real product entry * num/den.
Nearest(n, entry, num, den) == Abs(n * 2 * den - entry * num) <= den

\* The two worked cases of C7, at entry 100000.
C7_Examples ==
    /\ (SentComputed /\ price = Units(100000) /\ direction = "LONG" /\ leverage = 30) =>
          sent[1].body.targetPrice = Units(101700) /\ sent[1].body.stopPrice = Units(99500)
    /\ (SentComputed /\ price = Units(100000) /\ direction = "SHORT" /\ leverage = 50) =>
          sent[1].body.targetPrice = Units(98300) /\ sent[1].body.stopPrice = Units(100300)

\* C7 as stated: for every entry price above 0 the target is entry * 1.017
\* (LONG) or entry * 0.983 (SHORT) and the stop is entry * (1 - 0.15/L)
\* (LONG) or entry * (1 + 0.15/L) (SHORT), each rounded half up.
C7_Original ==
    (SentComputed /\ price > 0) =>
        LET b == sent[1].body
            L == leverage
        IN  /\ direction = "LONG" =>
                /\ b.targetPrice = Units(ExactRound(price, 1017, 1000))
                /\ b.stopPrice = Units(ExactRound(price, 20 * L - 3, 20 * L))
            /\ direction = "SHORT" =>
                /\ b.targetPrice = Units(ExactRound(price, 983, 1000))
                /\ b.stopPrice = Units(ExactRound(price, 20 * L + 3, 20 * L))
            /\ C7_Examples

\* C7 amended: target and stop are integers nearest to those products; a
\* product exactly halfway between two integers goes to either of them, as
\* the double-precision multiplication decides, and not always up.  The
\* two worked cases hold.
C7_Amended ==
    (SentComputed /\ price > 0) =>
        LET b == sent[1].body
            L == leverage
        IN  /\ b.targetPrice % 2 = 0 /\ b.stopPrice % 2 = 0
            /\ direction = "LONG" =>
                /\ Nearest(b.targetPrice \div 2, price, 1017, 1000)
                /\ Nearest(b.stopPrice \div 2, price, 20 * L - 3, 20 * L)
            /\ direction = "SHORT" =>
                /\ Nearest(b.targetPrice \div 2, price, 983, 1000)
                /\ Nearest(b.stopPrice \div 2, price, 20 * L + 3, 20 * L)
            /\ C7_Examples

\* Entry 500, LONG: 500 * 1.017 is 508.5 and the target sent is 508.
C7_Witness ==
    /\ SentComputed
    /\ price = Units(500)
    /\ direction = "LONG"
    /\ sent[1].body.targetPrice = Units(508)

\* C8: the two sources fail independently.  When the page cannot be had
\* the price is still acquired, and a price p > 0 becomes the entry
\* round(p); when the price cannot be had, direction and leverage still
\* come from the counts.
C8_Independent ==
    /\ (pc = "done" /\ taResult \in TAFailures) =>
          /\ priceResult # "none"
          /\ (priceResult = "usd" /\ usd > 0) => sent[1].body.entryPrice = RoundPrice(usd)
    /\ (pc = "done" /\ taResult = "html" /\ priceResult # "usd") =>
          /\ sent[1].body.signal = Direction(variant, Summary(matches))
          /\ sent[1].body.leverage = Leverage(variant, Summary(matches), sent[1].body.signal)

\* C9: each acquisition is bounded by a timeout of its own, so once
\* startBraincast has put the screen on 'loading' the screen becomes
\* 'report', even when a source never responds.
C9_EventuallyReport == (screen = "loading") ~> (screen = "report")

\* The series whose trailing window holds a aligned and o opposing counts
\* for direction d.
WithTrailing(d, a, o) ==
    [i \in 1..7 |->
        [timeframe |-> timeframes[i],
         up |-> IF i = 7 THEN (IF d = "LONG" THEN a ELSE o) ELSE 0,
         down |-> IF i = 7 THEN (IF d = "LONG" THEN o ELSE a) ELSE 0,
         neutral |-> 0]]

\* C10: with the direction and the opposing total of the trailing window
\* fixed, a larger aligned total never gives a lower leverage.
C10_Monotone ==
    (pc = "awaitPrice") =>
        LET a == IF direction = "LONG" THEN UpIn(summary, TrailingWindow)
                 ELSE DownIn(summary, TrailingWindow)
            o == IF direction = "LONG" THEN DownIn(summary, TrailingWindow)
                 ELSE UpIn(summary, TrailingWindow)
        IN  \A a2 \in 0..(3 * MaxCount) :
                LET l2 == Leverage(variant, WithTrailing(direction, a2, o), direction)
                IN  /\ a2 <= a => l2 <= leverage
                    /\ a2 >= a => l2 >= leverage

\* Counts on both sides of the trailing window, and a leverage strictly
\* between what fewer and what more aligned counts would give.
C10_Witness ==
    /\ pc = "awaitPrice"
    /\ UpIn(summary, TrailingWindow) > 0
    /\ DownIn(summary, TrailingWindow) > 0
    /\ leverage \in 31..49
    /\ Leverage(variant, WithTrailing(direction, 0, UpIn(summary, TrailingWindow)), direction) < leverage

\* The leading seven of the extracted triples.
LeadingSeven(m) == SubSeq(m, 1, Min(7, Len(m)))

\* C11: for any number of extracted triples the series has the seven
\* entries 5m, 15m, 1h, 2h, 4h, 6h, 1d in that order; entry i holds the
\* i-th extracted triple where there is one and (0, 0, 0) otherwise; and
\* the response sent is the one the leading seven triples alone give.
C11_SeriesShape ==
    Computed =>
        /\ Len(summary) = 7
        /\ [i \in 1..7 |-> summary[i].timeframe] = <<"5m", "15m", "1h", "2h", "4h", "6h", "1d">>
        /\ \A i \in 1..7 :
              <<summary[i].up, summary[i].down, summary[i].neutral>> =
                  IF i <= Len(matches) THEN matches[i] ELSE <<0, 0, 0>>
        /\ SentComputed =>
              LET s7 == Summary(LeadingSeven(matches))
                  d7 == Direction(variant, s7)
              IN  sent[1] = ComputedResponse(variant, d7, Leverage(variant, s7, d7), price)

\* More than seven triples, the extra one unlike the seventh and unlike
\* the first, and the response sent.
C11_Witness ==
    /\ SentComputed
    /\ Len(matches) > 7
    /\ matches[Len(matches)] # matches[7]
    /\ matches[Len(matches)] # matches[1]
    /\ summary[7].down > 0

\* C12: whenever the screen is 'report', btcPrice and report are both set,
\* so the component renders the report screen and never the null view,
\* whatever the two fetches resolved to.
C12_ReportRendered ==
    /\ screen = "report" => btcPrice # None /\ report # None /\ Rendered = "report"
    /\ Rendered # "null"

\* The report screen after both fetches gave nothing usable: the defaults
\* of both are shown.
C12_Witness ==
    /\ screen = "report"
    /\ btcPrice = Some([price |-> Units(113279), change24h |-> -276])
    /\ report = Some(DefaultReport)
    /\ Rendered = "report"

\* The three promises of startBraincast have all settled.
AllSettled ==
    /\ pricePromise.state = "resolved"
    /\ reportPromise.state = "resolved"
    /\ delayPromise.state = "resolved"

\* C13: the screen changes only from landing to loading, from loading to
\* report and from report to landing, and it changes to report only when
\* the price fetch, the report fetch and the delay have all settled.
C13_Transitions ==
    [][ /\ screen' # screen =>
              \/ screen = "landing" /\ screen' = "loading"
              \/ screen = "loading" /\ screen' = "report"
              \/ screen = "report" /\ screen' = "landing"
        /\ screen' = "report" /\ screen # "report" => AllSettled
        /\ screen = "loading" /\ ~AllSettled => screen' = "loading" ]_vars

\* The loading screen with the delay and the report fetch settled and the
\* price fetch still pending: the delay is not the last to settle, and the
\* screen has not changed.
C13_Witness ==
    /\ screen = "loading"
    /\ delayPromise.state = "resolved"
    /\ reportPromise.state = "resolved"
    /\ pricePromise = Pending

\* The Directive's target and stop lie on the sides of the entry that its
\* signal asks for.
Bracketed(body) ==
    IF body.signal = "LONG"
    THEN body.stopPrice <= body.entryPrice /\ body.entryPrice <= body.targetPrice
    ELSE body.targetPrice <= body.entryPrice /\ body.entryPrice <= body.stopPrice

\* C14: every Directive a handler sends, computed or static fallback and
\* whatever price the price source returned, has stopPrice <= entryPrice
\* <= targetPrice for LONG and targetPrice <= entryPrice <= stopPrice for
\* SHORT.
C14_Bracketed == \A i \in 1..Len(sent) : Bracketed(sent[i].body)

====
